---- MODULE Spec2Model ----
(***************************************************************************)
(* Field descriptors of pyxlutils (src/src/fields.py) and the time parsing *)
(* helpers they call (src/src/utils.py), as a state machine.               *)
(*                                                                         *)
(* A record type declares attributes bound to Field declarations.  The     *)
(* state is each declaration's runtime slots (owner, original_value,       *)
(* is_error, errors), each record instance's private attributes and its    *)
(* "fields" attribute, and the outcome of the last call.  The actions are  *)
(* the attribute assignment (Field.__set__), the attribute read            *)
(* (Field.__get__) and a direct call of the public deserialize method.     *)
(*                                                                         *)
(* Python values are records [t, s, n, e]: t is the type name, s a         *)
(* sequence of one-character strings, n and e integers.  A str keeps its   *)
(* characters in s; an int keeps its value in n; a float and a Decimal are *)
(* n * 10^e; a bool is n = 1 or 0; an Enum member keeps its value's        *)
(* characters in s; a datetime keeps yyyymmdd in n, hhmmss in e, and the   *)
(* microsecond digits and the timezone name in s.                          *)
(***************************************************************************)
EXTENDS Integers, Sequences, FiniteSets, TLC

\* ------------------------------------------------------------ values

Val(t, s, n, e) ==
    [t |-> t, s |-> s, n |-> n, e |-> e]

NoneV ==
    Val("None", <<>>, 0, 0)

StrV(s) ==
    Val("str", s, 0, 0)

IntV(n) ==
    Val("int", <<>>, n, 0)

BoolV(b) ==
    Val("bool", <<>>, IF b THEN 1 ELSE 0, 0)

EmptyList ==
    Val("list", <<>>, 0, 0)

EmptyTuple ==
    Val("tuple", <<>>, 0, 0)

EmptyDict ==
    Val("dict", <<>>, 0, 0)

\* An attribute that was never set on its object.
Unset ==
    Val("<unset>", <<>>, 0, 0)

\* EMPTY_VALUES = (None, "", [], (), {}); `x in EMPTY_VALUES` compares with ==.
EMPTY_VALUES ==
    {NoneV, StrV(<<>>), EmptyList, EmptyTuple, EmptyDict}

\* ------------------------------------------------------------ characters

UpperLetters ==
    << "A","B","C","D","E","F","G","H","I","J","K","L","M",
       "N","O","P","Q","R","S","T","U","V","W","X","Y","Z" >>

LowerLetters ==
    << "a","b","c","d","e","f","g","h","i","j","k","l","m",
       "n","o","p","q","r","s","t","u","v","w","x","y","z" >>

DigitChars ==
    << "0","1","2","3","4","5","6","7","8","9" >>

IndexIn(seq, c) ==
    IF \E i \in 1..Len(seq) : seq[i] = c
    THEN CHOOSE i \in 1..Len(seq) : seq[i] = c
    ELSE 0

LowerChar(c) ==
    IF IndexIn(UpperLetters, c) > 0 THEN LowerLetters[IndexIn(UpperLetters, c)] ELSE c

UpperChar(c) ==
    IF IndexIn(LowerLetters, c) > 0 THEN UpperLetters[IndexIn(LowerLetters, c)] ELSE c

IsDigit(c) ==
    IndexIn(DigitChars, c) > 0

DigitVal(c) ==
    IndexIn(DigitChars, c) - 1

IsSpace(c) ==
    c \in {" ", "\t", "\n"}

\* str.lower()
Lower(s) ==
    [i \in 1..Len(s) |-> LowerChar(s[i])]

\* str.upper()
Upper(s) ==
    [i \in 1..Len(s) |-> UpperChar(s[i])]

\* str.capitalize(): first character upper-cased, the rest lower-cased.
Capitalize(s) ==
    [i \in 1..Len(s) |-> IF i = 1 THEN UpperChar(s[i]) ELSE LowerChar(s[i])]

\* str.replace(a, b) for one-character a and b.
ReplaceChar(s, a, b) ==
    [i \in 1..Len(s) |-> IF s[i] = a THEN b ELSE s[i]]

RECURSIVE LStrip(_)
LStrip(s) ==
    IF s # <<>> /\ IsSpace(Head(s)) THEN LStrip(Tail(s)) ELSE s

RECURSIVE RStrip(_)
RStrip(s) ==
    IF s # <<>> /\ IsSpace(s[Len(s)]) THEN RStrip(SubSeq(s, 1, Len(s) - 1)) ELSE s

\* str.strip()
Strip(s) ==
    RStrip(LStrip(s))

AllDigits(s) ==
    \A i \in 1..Len(s) : IsDigit(s[i])

\* The number a digit string writes (0 for the empty string).
RECURSIVE DigitsToNat(_)
DigitsToNat(s) ==
    IF s = <<>> THEN 0
    ELSE 10 * DigitsToNat(SubSeq(s, 1, Len(s) - 1)) + DigitVal(s[Len(s)])

RECURSIVE NatToDigits(_)
NatToDigits(n) ==
    IF n < 10 THEN << DigitChars[n + 1] >>
    ELSE NatToDigits(n \div 10) \o << DigitChars[(n % 10) + 1] >>

Abs(n) ==
    IF n < 0 THEN -n ELSE n

RECURSIVE Pow10(_)
Pow10(k) ==
    IF k <= 0 THEN 1 ELSE 10 * Pow10(k - 1)

RECURSIVE Zeros(_)
Zeros(k) ==
    IF k <= 0 THEN <<>> ELSE <<"0">> \o Zeros(k - 1)

\* str(int)
IntToStr(n) ==
    IF n < 0 THEN <<"-">> \o NatToDigits(-n) ELSE NatToDigits(n)

\* ------------------------------------------------------------ numbers

NumericTypes ==
    {"int", "bool", "float", "Decimal"}

IsNumber(v) ==
    v.t \in NumericTypes

\* a < b for two numbers n * 10^e, at their common scale.
NumLess(a, b) ==
    LET m == IF a.e < b.e THEN a.e ELSE b.e
    IN  a.n * Pow10(a.e - m) < b.n * Pow10(b.e - m)

\* A float n * 10^e with no trailing zero in its fraction.
RECURSIVE FloatV(_, _)
FloatV(n, e) ==
    IF e < 0 /\ n % 10 = 0 THEN FloatV(n \div 10, e + 1) ELSE Val("float", <<>>, n, e)

DecimalV(n, e) ==
    Val("Decimal", <<>>, n, e)

\* Position of the first "." of s, or 0.
DotAt(s) ==
    IndexIn(s, ".")

\* The decimal literals the numeric constructors share:
\* [+-] digits [. [digits]]  or  [+-] . digits, after stripping whitespace.
\* [ok, n, e]: the literal's value is n * 10^e, e = -(number of fraction digits).
\* Exponent forms, underscores, "inf" and "nan" are not in the model's inputs.
ParseDecimalLiteral(raw) ==
    LET s     == Strip(raw)
        neg   == s # <<>> /\ Head(s) = "-"
        body  == IF s # <<>> /\ Head(s) \in {"+", "-"} THEN Tail(s) ELSE s
        dot   == DotAt(body)
        ip    == IF dot = 0 THEN body ELSE SubSeq(body, 1, dot - 1)
        fp    == IF dot = 0 THEN <<>> ELSE SubSeq(body, dot + 1, Len(body))
        ok    == /\ AllDigits(ip)
                 /\ AllDigits(fp)
                 /\ Len(ip) + Len(fp) > 0
        mag   == DigitsToNat(ip \o fp)
    IN  IF ok
        THEN [ok |-> TRUE, n |-> IF neg THEN -mag ELSE mag, e |-> -Len(fp)]
        ELSE [ok |-> FALSE, n |-> 0, e |-> 0]

\* The plain string of n * 10^e (Decimal.__str__ / to_eng_string for exponents
\* in -6..0, float repr with `always` forcing a fraction).
PlainString(n, e) ==
    LET ds   == NatToDigits(Abs(n))
        sign == IF n < 0 THEN <<"-">> ELSE <<>>
        k    == -e
    IN  IF k <= 0 THEN sign \o ds
        ELSE IF Len(ds) > k
             THEN sign \o SubSeq(ds, 1, Len(ds) - k) \o <<".">>
                       \o SubSeq(ds, Len(ds) - k + 1, Len(ds))
             ELSE sign \o <<"0", ".">> \o Zeros(k - Len(ds)) \o ds

\* str(value), for the types the record's raw inputs and their conversions have.
PyStr(v) ==
    CASE v.t = "str"     -> v.s
      [] v.t = "None"    -> <<"N","o","n","e">>
      [] v.t = "int"     -> IntToStr(v.n)
      [] v.t = "bool"    -> IF v.n = 1 THEN <<"T","r","u","e">> ELSE <<"F","a","l","s","e">>
      [] v.t = "float"   -> IF v.e = 0 THEN IntToStr(v.n) \o <<".","0">>
                            ELSE PlainString(v.n, v.e)
      [] v.t = "Decimal" -> PlainString(v.n, v.e)
      [] v.t = "list"    -> <<"[","]">>
      [] v.t = "tuple"   -> <<"(",")">>
      [] v.t = "dict"    -> <<"{","}">>

\* A conversion's result: exc is "" or the name of the exception it raised.
Conv(exc, v) ==
    [exc |-> exc, v |-> v]

\* int(value)
PyInt(v) ==
    CASE v.t = "str" ->
            LET s    == Strip(v.s)
                neg  == s # <<>> /\ Head(s) = "-"
                body == IF s # <<>> /\ Head(s) \in {"+", "-"} THEN Tail(s) ELSE s
            IN  IF body # <<>> /\ AllDigits(body)
                THEN Conv("", IntV(IF neg THEN -DigitsToNat(body) ELSE DigitsToNat(body)))
                ELSE Conv("ValueError", NoneV)
      [] v.t \in {"int", "bool"} -> Conv("", IntV(v.n))
      [] v.t \in {"float", "Decimal"} ->
            Conv("", IntV((IF v.n < 0 THEN -1 ELSE 1) * (Abs(v.n) \div Pow10(-v.e))))
      [] v.t \in {"None", "list", "tuple", "dict", "datetime", "enum"} ->
            Conv("TypeError", NoneV)

\* float(value)
PyFloat(v) ==
    CASE v.t = "str" ->
            LET p == ParseDecimalLiteral(v.s)
            IN  IF p.ok THEN Conv("", FloatV(p.n, p.e)) ELSE Conv("ValueError", NoneV)
      [] v.t \in {"int", "bool", "float", "Decimal"} -> Conv("", FloatV(v.n, v.e))
      [] v.t \in {"None", "list", "tuple", "dict", "datetime", "enum"} ->
            Conv("TypeError", NoneV)

\* Decimal(text): InvalidOperation on anything but a decimal literal.
PyDecimal(text) ==
    LET p == ParseDecimalLiteral(text)
    IN  IF p.ok THEN Conv("", DecimalV(p.n, p.e)) ELSE Conv("InvalidOperation", NoneV)

\* decimal's rounding modes; None is the context's default, ROUND_HALF_EVEN.
RoundUpBy(mode, q, rem, half) ==
    CASE mode = "ROUND_HALF_UP"             -> rem >= half
      [] mode \in {"ROUND_HALF_EVEN", "None"} -> rem > half \/ (rem = half /\ q % 2 = 1)
      [] mode = "ROUND_HALF_DOWN"           -> rem > half
      [] mode = "ROUND_DOWN"                -> FALSE
      [] mode = "ROUND_UP"                  -> rem > 0

\* Decimal.quantize(places, rounding=mode) of a finite decimal d.
Quantize(d, places, mode) ==
    IF d.e >= places.e
    THEN DecimalV(d.n * Pow10(d.e - places.e), places.e)
    ELSE LET k    == places.e - d.e
             q    == Abs(d.n) \div Pow10(k)
             rem  == Abs(d.n) % Pow10(k)
             half == 5 * Pow10(k - 1)
             mag  == IF RoundUpBy(mode, q, rem, half) THEN q + 1 ELSE q
         IN  DecimalV(IF d.n < 0 THEN -mag ELSE mag, places.e)

\* ------------------------------------------------------------ utils.py

RECURSIVE DigitRun(_, _)
\* Length of the longest run of digits of s that starts at position p.
DigitRun(s, p) ==
    IF p <= Len(s) /\ IsDigit(s[p]) THEN 1 + DigitRun(s, p + 1) ELSE 0

CharAt(s, p) ==
    IF p >= 1 /\ p <= Len(s) THEN s[p] ELSE ""

NumAt(s, p, k) ==
    DigitsToNat(SubSeq(s, p, p + k - 1))

IsLeap(y) ==
    (y % 4 = 0 /\ y % 100 # 0) \/ y % 400 = 0

DaysInMonth(y, m) ==
    IF m = 2 THEN (IF IsLeap(y) THEN 28 + 1 ELSE 28)
    ELSE IF m \in {4, 6, 9, 11} THEN 30 ELSE 31

\* datetime.datetime(...)'s range checks (ValueError otherwise).
ValidDateTime(y, mo, d, h, mi, sec) ==
    /\ y >= 1 /\ mo \in 1..12 /\ d >= 1 /\ d <= DaysInMonth(y, mo)
    /\ h \in 0..23 /\ mi \in 0..59 /\ sec \in 0..59

TwoDigits(n) ==
    << DigitChars[(n \div 10) + 1], DigitChars[(n % 10) + 1] >>

\* get_fixed_timezone(offset) for an int number of minutes: the timezone's name,
\* or ValueError from dt.timezone when the offset is not within a day.
get_fixed_timezone(offset) ==
    LET sign == IF offset < 0 THEN <<"-">> ELSE <<"+">>
        hh   == Abs(offset) \div 60
        mm   == Abs(offset) % 60
    IN  IF Abs(offset) >= 24 * 60
        THEN [exc |-> "ValueError", name |-> <<>>]
        ELSE [exc |-> "", name |-> sign \o TwoDigits(hh) \o TwoDigits(mm)]

\* The match of _iso8601_datetime_re at the start of s, field by field.  Every
\* field is a run of digits closed by a non-digit, so the match is decided left
\* to right.  A match is [ok, y, mo, d, h, mi, sec, micro, tz]: micro is the
\* digits of the microsecond group and tz the text of the tzinfo group, each
\* <<>> when the group did not take part.
NoIsoMatch ==
    [ok |-> FALSE, y |-> 0, mo |-> 0, d |-> 0, h |-> 0, mi |-> 0, sec |-> 0,
     micro |-> <<>>, tz |-> <<>>]

\* "$": the end of the string, or just before a newline that ends it.
IsoEnd(s, p, m) ==
    IF p = Len(s) + 1 \/ (p = Len(s) /\ s[p] = "\n") THEN m ELSE NoIsoMatch

\* (?P<tzinfo>Z|[+-]\d{2}(?::?\d{2})?)?
IsoZone(s, p, m) ==
    LET l1 == DigitRun(s, p + 1)
        l2 == DigitRun(s, p + 4)
    IN  IF CharAt(s, p) = "Z" THEN IsoEnd(s, p + 1, [m EXCEPT !.tz = <<"Z">>])
        ELSE IF CharAt(s, p) \notin {"+", "-"} THEN IsoEnd(s, p, m)
        ELSE IF l1 = 2 /\ CharAt(s, p + 3) = ":" /\ l2 = 2
             THEN IsoEnd(s, p + 6, [m EXCEPT !.tz = SubSeq(s, p, p + 5)])
        ELSE IF l1 \in {2, 4}
             THEN IsoEnd(s, p + 1 + l1, [m EXCEPT !.tz = SubSeq(s, p, p + l1)])
             ELSE NoIsoMatch

\* (?:\.(?P<microsecond>\d{1,6})\d{0,6})?
IsoFraction(s, p, m) ==
    LET l == DigitRun(s, p + 1)
    IN  IF CharAt(s, p) # "." THEN IsoZone(s, p, m)
        ELSE IF l \in 1..12
             THEN IsoZone(s, p + 1 + l,
                          [m EXCEPT !.micro = SubSeq(s, p + 1, p + (IF l > 6 THEN 6 ELSE l))])
             ELSE NoIsoMatch

\* (?::(?P<second>\d{1,2}) ... )?
IsoSecond(s, p, m) ==
    LET l == DigitRun(s, p + 1)
    IN  IF CharAt(s, p) # ":" THEN IsoZone(s, p, m)
        ELSE IF l \in {1, 2}
             THEN IsoFraction(s, p + 1 + l, [m EXCEPT !.sec = NumAt(s, p + 1, l)])
             ELSE NoIsoMatch

\* (?P<minute>\d{1,2})
IsoMinute(s, p, m) ==
    LET l == DigitRun(s, p)
    IN  IF l \in {1, 2} THEN IsoSecond(s, p + l, [m EXCEPT !.mi = NumAt(s, p, l)])
        ELSE NoIsoMatch

\* (?P<hour>\d{1,2}):
IsoHour(s, p, m) ==
    LET l == DigitRun(s, p)
    IN  IF l \in {1, 2} /\ CharAt(s, p + l) = ":"
        THEN IsoMinute(s, p + l + 1, [m EXCEPT !.h = NumAt(s, p, l)])
        ELSE NoIsoMatch

\* (?P<day>\d{1,2})[T ]
IsoDay(s, p, m) ==
    LET l == DigitRun(s, p)
    IN  IF l \in {1, 2} /\ CharAt(s, p + l) \in {"T", " "}
        THEN IsoHour(s, p + l + 1, [m EXCEPT !.d = NumAt(s, p, l)])
        ELSE NoIsoMatch

\* (?P<month>\d{1,2})-
IsoMonth(s, p, m) ==
    LET l == DigitRun(s, p)
    IN  IF l \in {1, 2} /\ CharAt(s, p + l) = "-"
        THEN IsoDay(s, p + l + 1, [m EXCEPT !.mo = NumAt(s, p, l)])
        ELSE NoIsoMatch

\* (?P<year>\d{4})-
IsoMatch(s) ==
    IF DigitRun(s, 1) >= 4 /\ CharAt(s, 5) = "-"
    THEN IsoMonth(s, 6, [NoIsoMatch EXCEPT !.ok = TRUE, !.y = NumAt(s, 1, 4)])
    ELSE NoIsoMatch

\* Lines 131-139: the tzinfo of a match, [exc, name].
IsoZoneInfo(tz) ==
    LET mins == IF Len(tz) > 3 THEN NumAt(tz, Len(tz) - 1, 2) ELSE 0
        mag  == 60 * NumAt(tz, 2, 2) + mins
    IN  IF tz = <<>> THEN [exc |-> "", name |-> <<>>]
        ELSE IF tz = <<"Z">> THEN [exc |-> "", name |-> <<"U","T","C">>]
        ELSE get_fixed_timezone(IF tz[1] = "-" THEN -mag ELSE mag)

\* Lines 127-142 of from_iso_datetime, given the match m.
IsoDateTime(m) ==
    LET micro == IF m.micro = <<>> THEN Zeros(6)
                 ELSE m.micro \o Zeros(6 - Len(m.micro))
        tz    == IsoZoneInfo(m.tz)
    IN  IF ~m.ok THEN Conv("ValueError", NoneV)
        ELSE IF tz.exc # "" THEN Conv(tz.exc, NoneV)
        ELSE IF ~ValidDateTime(m.y, m.mo, m.d, m.h, m.mi, m.sec)
             THEN Conv("ValueError", NoneV)
        ELSE Conv("", Val("datetime", micro \o tz.name,
                          m.y * 10000 + m.mo * 100 + m.d,
                          m.h * 10000 + m.mi * 100 + m.sec))

\* from_iso_datetime(value): the datetime, or the exception raised (re.match
\* raises TypeError on anything but a string).
from_iso_datetime(v) ==
    IF v.t # "str" THEN Conv("TypeError", NoneV) ELSE IsoDateTime(IsoMatch(v.s))

\* ------------------------------------------------------------ constants.py

REQUIRED_message ==
    "Missing Value - {field} = : Row {row_number}."

INCORRECT_FORMAT_message ==
    "Incorrect Format - {field} = \"{value}\" : Row {row_number}."

\* (the source's backquotes around the replacement fields are left out)
MISSING_ERROR_MESSAGE ==
    "ValidationError raised by {class_name}, but error key {key} does not exist in the error_messages dictionary."

\* A template a caller passes as an error_messages override.
CUSTOM_message ==
    "Row {row_number}: {field} cannot be \"{value}\"."

\* The replacement fields of each template (what str.format looks up).
Placeholders(template) ==
    CASE template = REQUIRED_message         -> {"field", "row_number"}
      [] template = INCORRECT_FORMAT_message -> {"field", "value", "row_number"}
      [] template = MISSING_ERROR_MESSAGE    -> {"class_name", "key"}
      [] template = CUSTOM_message           -> {"row_number", "field", "value"}
      [] template = "Not a valid {obj_type}." -> {"obj_type"}
      [] template = "Not a valid {awareness} {obj_type}." -> {"awareness", "obj_type"}
      [] template = "\"{input}\" cannot be formatted as a {obj_type}." -> {"input", "obj_type"}

\* ------------------------------------------------------------ declarations

FieldKinds ==
    {"IntField", "FloatField", "StrField", "DecimalField", "DateTime",
     "BooleanField", "EnumField"}

\* cls.__mro__ of each concrete field class.
MRO(kind) ==
    CASE kind \in {"IntField", "FloatField"} -> <<kind, "NumberField", "Field", "object">>
      [] kind \in {"StrField", "DecimalField", "DateTime", "BooleanField", "EnumField"} ->
            <<kind, "Field", "object">>

EmptyMapping ==
    [k \in {} |-> ""]

\* dict.update: b's entries over a's.
Updated(a, b) ==
    [k \in DOMAIN a \cup DOMAIN b |-> IF k \in DOMAIN b THEN b[k] ELSE a[k]]

\* getattr(cls, "default_error_messages", {}): a class that does not define the
\* attribute inherits its parent's; object has none.
default_error_messages(cls) ==
    CASE cls = "object" -> EmptyMapping
      [] cls = "DateTime" ->
            [k \in {"invalid", "invalid_awareness", "format"} |->
                CASE k = "invalid" -> "Not a valid {obj_type}."
                  [] k = "invalid_awareness" -> "Not a valid {awareness} {obj_type}."
                  [] k = "format" -> "\"{input}\" cannot be formatted as a {obj_type}."]
      [] cls \in {"Field", "NumberField", "IntField", "FloatField", "StrField",
                  "DecimalField", "BooleanField", "EnumField"} ->
            [k \in {"required", "format"} |->
                IF k = "required" THEN REQUIRED_message ELSE INCORRECT_FORMAT_message]

RECURSIVE MergeReversed(_)
\* The loop of Field.__init__ over reversed(mro): the most-derived class last.
MergeReversed(mro) ==
    IF mro = <<>> THEN EmptyMapping
    ELSE Updated(MergeReversed(Tail(mro)), default_error_messages(Head(mro)))

\* Field.__init__ and the subclasses' __init__: a declaration with every
\* parameter at its default.  Optional parameters are Python values (NoneV when
\* not given).
Declare(kind) ==
    [kind |-> kind,
     verbose_name |-> NoneV,
     required |-> TRUE,
     default |-> NoneV,
     convert_to_none_strings |-> <<>>,
     validators |-> <<>>,
     pre_processors |-> <<>>,
     error_messages |-> EmptyMapping,
     min_value |-> NoneV, max_value |-> NoneV,
     min_len |-> NoneV, max_len |-> NoneV,
     places |-> NoneV, places_limit |-> NoneV, rounding |-> "None",
     format |-> NoneV,
     enumeration |-> <<>>]

default_convert_to_none_strings ==
    << <<"n","u","l","l">> >>

default_validators ==
    <<>>

\* self.convert_to_none_strings
ConvertToNoneStrings(decl) ==
    default_convert_to_none_strings \o decl.convert_to_none_strings

\* self.validators
Validators(decl) ==
    default_validators \o decl.validators

\* self.preprocessors (built from default_validators, as the source does)
Preprocessors(decl) ==
    default_validators \o decl.pre_processors

\* self.error_messages
ErrorMessages(decl) ==
    Updated(MergeReversed(MRO(decl.kind)), decl.error_messages)

\* make_verbose_name, called from __set_name__ with the attribute's name.
make_verbose_name(decl, attr_name) ==
    IF decl.verbose_name.t = "str" /\ decl.verbose_name.s # <<>>
    THEN decl.verbose_name.s
    ELSE Capitalize(ReplaceChar(attr_name, "_", " "))

\* ------------------------------------------------------------ errors

NoOwner ==
    "None"

Records ==
    {"r1", "r2"}

\* owner.row_number: the row each record instance was read from.
row_number(r) ==
    IF r = "r1" THEN 1 ELSE 2

\* The runtime slots a call works on, and what it leaves behind:
\* errors is [kind, items] (kind "list" after __init__, "defaultdict" after
\* __set__); exc is "" or the exception that is propagating, raised at `at`;
\* calls lists the preprocessors, deserialize methods and validators invoked;
\* made lists every message _make_error formatted (line 143) with the key it
\* was asked for, recorded or not; appended lists the messages this call added
\* to errors.
Context(errors, is_error) ==
    [errors |-> errors, is_error |-> is_error, exc |-> "", at |-> "",
     calls |-> <<>>, made |-> <<>>, appended |-> <<>>]

Raise(ctx, exc, at) ==
    [ctx EXCEPT !.exc = exc, !.at = at]

Called(ctx, what, id) ==
    [ctx EXCEPT !.calls = Append(@, <<what, id>>)]

\* A step's result: the context and the value it hands on.
Step(ctx, v) ==
    [ctx |-> ctx, v |-> v]

\* Keyword arguments of a _make_error call.
KwValue(v) ==
    [names |-> {"value"}, value |-> v, input |-> Unset, obj_type |-> ""]

KwInput(v, obj_type) ==
    [names |-> {"input", "obj_type"}, value |-> Unset, input |-> v, obj_type |-> obj_type]

\* template.format(**kwargs): the template with the arguments it refers to.
Format(template, kw, field, row, class_name, key) ==
    LET ph == Placeholders(template)
    IN  [template   |-> template,
         value      |-> IF "value" \in ph THEN kw.value ELSE Unset,
         input      |-> IF "input" \in ph THEN kw.input ELSE Unset,
         obj_type   |-> IF "obj_type" \in ph THEN kw.obj_type ELSE "",
         field      |-> IF "field" \in ph THEN field ELSE <<>>,
         row_number |-> IF "row_number" \in ph THEN row ELSE 0,
         class_name |-> IF "class_name" \in ph THEN class_name ELSE "",
         key        |-> IF "key" \in ph THEN key ELSE ""]

\* list.append on self.errors: a defaultdict has no append.
ErrorsAppend(ctx, msg) ==
    IF ctx.errors.kind = "list"
    THEN [ctx EXCEPT !.errors.items = Append(@, msg), !.appended = Append(@, msg)]
    ELSE Raise(ctx, "AttributeError", "errors.append")

\* Lines 145-146: the append, then the flag.
AppendAndFlag(ctx, msg) ==
    IF ErrorsAppend(ctx, msg).exc # "" THEN ErrorsAppend(ctx, msg)
    ELSE [ErrorsAppend(ctx, msg) EXCEPT !.is_error = TRUE]

\* Field._make_error(key, **kwargs); returns None.
MakeError(self, ctx, key, kw) ==
    LET messages == ErrorMessages(self.decl)
        field    == make_verbose_name(self.decl, self.attr_name)
        names    == kw.names \cup {"row_number", "field"}
        found    == key \in DOMAIN messages
        template == IF found THEN messages[key] ELSE MISSING_ERROR_MESSAGE
        row      == row_number(self.owner)
        msg      == IF found
                    THEN Format(template, kw, field, row, "", "")
                    ELSE Format(template, kw, field, row, self.decl.kind, key)
    IN  IF ctx.exc # "" THEN ctx
        ELSE IF self.owner = NoOwner
             THEN Raise(ctx, "AttributeError", "owner.row_number")
        ELSE IF found /\ ~(Placeholders(template) \subseteq names)
             THEN Raise(ctx, "KeyError", "msg.format")
        ELSE AppendAndFlag([ctx EXCEPT !.made = Append(@, [key |-> key, msg |-> msg])],
                           msg)

\* ------------------------------------------------------------ the pipeline

\* Field.pre_process_value
pre_process_value(self, value) ==
    IF value.t # "str" THEN value
    ELSE LET stripped == IF Strip(value.s) = <<>> THEN NoneV ELSE StrV(Strip(value.s))
         IN  IF \E i \in 1..Len(ConvertToNoneStrings(self.decl)) :
                    ConvertToNoneStrings(self.decl)[i] = Lower(PyStr(stripped))
             THEN NoneV
             ELSE stripped

\* The unary functions a caller passes as pre_processors: the example of the
\* source's comment (spaces become underscores) and one that rejects its input.
ApplyPreprocessor(p, value) ==
    CASE p = "spaces_to_underscores" ->
            IF value.t = "str" THEN Conv("", StrV(ReplaceChar(value.s, " ", "_")))
            ELSE Conv("", value)
      [] p = "reject" -> Conv("ValidationError", value)

\* The unary functions a caller passes as validators.
ApplyValidator(v, value) ==
    CASE v = "accept" -> ""
      [] v = "reject" -> "ValidationError"

RECURSIVE PreprocessorLoop(_, _, _, _, _)
\* The for loop of _run_preprocessors over the preprocessors left, ps.
PreprocessorLoop(self, ctx, ps, value, original_value) ==
    IF ps = <<>> THEN Step(ctx, value)
    ELSE LET r == ApplyPreprocessor(Head(ps), value)
             c == Called(ctx, "preprocessor", Head(ps))
         IN  IF r.exc = "ValidationError"
             THEN Step(MakeError(self, c, "incorrect_format", KwValue(original_value)), NoneV)
             ELSE PreprocessorLoop(self, c, Tail(ps), r.v, original_value)

\* Field._run_preprocessors
RunPreprocessors(self, ctx, value) ==
    IF value \in EMPTY_VALUES THEN Step(ctx, value)
    ELSE PreprocessorLoop(self, ctx, Preprocessors(self.decl), value, value)

\* Field._validate_required
ValidateRequired(self, ctx, value) ==
    IF value = NoneV /\ self.decl.required
    THEN MakeError(self, ctx, "required", KwValue(value))
    ELSE ctx

RECURSIVE ValidatorLoop(_, _, _, _)
ValidatorLoop(self, ctx, vs, value) ==
    IF vs = <<>> \/ ctx.exc # "" THEN ctx
    ELSE LET c == Called(ctx, "validator", Head(vs))
         IN  ValidatorLoop(self,
                           IF ApplyValidator(Head(vs), value) = "ValidationError"
                           THEN MakeError(self, c, "incorrect_format",
                                          KwValue(self.original_value))
                           ELSE c,
                           Tail(vs), value)

\* Field._run_validators
RunValidators(self, ctx, value) ==
    IF value \in EMPTY_VALUES THEN ctx
    ELSE ValidatorLoop(self, ctx, Validators(self.decl), value)

\* ------------------------------------------------------------ deserialize

\* try: convert  except <caught>: _make_error("incorrect_format", ...); value = None
SoftConversion(self, ctx, conv, caught) ==
    IF conv.exc = "" THEN Step(ctx, conv.v)
    ELSE IF conv.exc \in caught
         THEN Step(MakeError(self, ctx, "incorrect_format", KwValue(self.original_value)),
                   NoneV)
         ELSE Step(Raise(ctx, conv.exc, "deserialize"), NoneV)

\* IntField.deserialize
IntDeserialize(self, ctx, value) ==
    SoftConversion(self, ctx, PyInt(value), {"ValueError"})

\* FloatField.deserialize
FloatDeserialize(self, ctx, value) ==
    SoftConversion(self, ctx, PyFloat(value), {"ValueError"})

\* StrField.deserialize
StrDeserialize(self, ctx, value) ==
    SoftConversion(self, ctx, Conv("", StrV(Strip(PyStr(value)))), {"ValueError"})

\* DecimalField.deserialize
DecimalDeserialize(self, ctx, value) ==
    SoftConversion(self, ctx, PyDecimal(PyStr(value)), {"ValueError", "InvalidOperation"})

DEFAULT_FORMAT ==
    <<"i","s","o">>

\* DESERIALIZATION_FUNCS.get(data_format) applied to value.  The "rfc" names
\* and strptime formats hand the value to the standard library; the
\* declarations of this model use the ISO names only.
DateTimeParse(data_format, value) ==
    CASE data_format \in {<<"i","s","o">>, <<"i","s","o","8","6","0","1">>} ->
            from_iso_datetime(value)

\* The except clauses of DateTime.deserialize: `raise self._make_error(...)`
\* raises what _make_error returns, which is None: a TypeError, unless
\* _make_error itself raised.
RaiseMakeError(made) ==
    IF made.exc # "" THEN made ELSE Raise(made, "TypeError", "raise None")

DateTimeConverted(self, ctx, value, conv) ==
    IF conv.exc = "" THEN Step(ctx, conv.v)
    ELSE IF conv.exc \in {"TypeError", "AttributeError", "ValueError"}
         THEN Step(RaiseMakeError(MakeError(self, ctx, "invalid",
                                            KwInput(value, "datetime"))),
                   NoneV)
         ELSE Step(Raise(ctx, conv.exc, "deserialize"), NoneV)

\* DateTime.deserialize
DateTimeDeserialize(self, ctx, value) ==
    DateTimeConverted(self, ctx, value,
        DateTimeParse(IF self.decl.format.t = "str" /\ self.decl.format.s # <<>>
                      THEN self.decl.format.s ELSE DEFAULT_FORMAT,
                      value))

truthy_strings ==
    { <<"t">>, <<"T">>, <<"t","r","u","e">>, <<"T","r","u","e">>, <<"T","R","U","E">>,
      <<"1">>, <<"y","e","s">>, <<"Y","e","s">>, <<"Y","E","S">> }

falsy_strings ==
    { <<"f">>, <<"F">>, <<"f","a","l","s","e">>, <<"F","a","l","s","e">>,
      <<"F","A","L","S","E">>, <<"0">>, <<"n","o">>, <<"N","o">>, <<"N","O">> }

\* value in BooleanField.truthy: the strings, and any number equal to 1.
InTruthy(value) ==
    \/ value.t = "str" /\ value.s \in truthy_strings
    \/ IsNumber(value) /\ ~NumLess(value, IntV(1)) /\ ~NumLess(IntV(1), value)

\* value in BooleanField.falsy: the strings, and any number equal to 0.
InFalsy(value) ==
    \/ value.t = "str" /\ value.s \in falsy_strings
    \/ IsNumber(value) /\ ~NumLess(value, IntV(0)) /\ ~NumLess(IntV(0), value)

\* BooleanField.deserialize (truthy is never empty, so the bool(value) branch is
\* not taken); a list or a dict cannot be hashed: TypeError, which is caught.
BooleanDeserialize(self, ctx, value) ==
    IF value.t \in {"list", "dict"}
    THEN Step(MakeError(self, ctx, "incorrect_format", KwValue(self.original_value)), NoneV)
    ELSE IF InTruthy(value) THEN Step(ctx, BoolV(TRUE))
    ELSE IF InFalsy(value) THEN Step(ctx, BoolV(FALSE))
    ELSE Step(MakeError(self, ctx, "incorrect_format", KwValue(self.original_value)), NoneV)

\* EnumField.deserialize: the member whose lower-cased value is value.lower()
\* (the last such member wins in the dict comprehension).
EnumDeserialize(self, ctx, value) ==
    LET members == self.decl.enumeration
        hits    == IF value.t = "str"
                   THEN {i \in 1..Len(members) : Lower(members[i]) = Lower(value.s)}
                   ELSE {}
        last    == CHOOSE i \in hits : \A j \in hits : j <= i
    IN  IF hits # {} THEN Step(ctx, Val("enum", members[last], 0, 0))
        ELSE Step(MakeError(self, ctx, "incorrect_format", KwValue(self.original_value)),
                  NoneV)

\* self.deserialize(value), by the declaration's class.
Deserialize(self, ctx, value) ==
    LET c == Called(ctx, "deserialize", self.decl.kind)
    IN  CASE self.decl.kind = "IntField"     -> IntDeserialize(self, c, value)
          [] self.decl.kind = "FloatField"   -> FloatDeserialize(self, c, value)
          [] self.decl.kind = "StrField"     -> StrDeserialize(self, c, value)
          [] self.decl.kind = "DecimalField" -> DecimalDeserialize(self, c, value)
          [] self.decl.kind = "DateTime"     -> DateTimeDeserialize(self, c, value)
          [] self.decl.kind = "BooleanField" -> BooleanDeserialize(self, c, value)
          [] self.decl.kind = "EnumField"    -> EnumDeserialize(self, c, value)

\* ------------------------------------------------------------ validate

\* a < b as Python orders them: "TypeError" unless both are numbers.
PyLess(a, b) ==
    IF IsNumber(a) /\ IsNumber(b)
    THEN (IF NumLess(a, b) THEN "True" ELSE "False")
    ELSE "TypeError"

\* NumberField.validate: the second test reads min_value where the first reads it
\* too, as the source does.
NumberValidate(self, ctx, value) ==
    LET min_value == self.decl.min_value
        max_value == self.decl.max_value
        below  == IF value # NoneV /\ min_value # NoneV
                  THEN PyLess(value, min_value) ELSE "False"
        c1     == CASE below = "TypeError" -> Raise(ctx, "TypeError", "min_value > value")
                    [] below = "True" -> MakeError(self, ctx, "incorrect_format",
                                                   KwValue(self.original_value))
                    [] below = "False" -> ctx
        value1 == IF below = "True" THEN NoneV ELSE value
        above  == IF value1 # NoneV /\ max_value # NoneV
                  THEN PyLess(min_value, value1) ELSE "False"
    IN  IF c1.exc # "" THEN c1
        ELSE CASE above = "TypeError" -> Raise(c1, "TypeError", "min_value < value")
               [] above = "True" -> MakeError(self, c1, "incorrect_format",
                                              KwValue(self.original_value))
               [] above = "False" -> c1

\* len(value)
PyLen(value) ==
    CASE value.t \in {"str", "enum"} -> Len(value.s)
      [] value.t \in {"list", "tuple", "dict"} -> 0
      [] value.t \in {"None", "int", "bool", "float", "Decimal", "datetime"} -> -1

\* StrField.validate
StrValidate(self, ctx, value) ==
    LET min_len == self.decl.min_len
        max_len == self.decl.max_len
    IN  IF value = NoneV \/ (min_len = NoneV /\ max_len = NoneV) THEN ctx
        ELSE IF PyLen(value) < 0 THEN Raise(ctx, "TypeError", "len(value)")
        ELSE IF \/ (min_len # NoneV /\ PyLen(value) < min_len.n)
                \/ (max_len # NoneV /\ PyLen(value) > max_len.n)
             THEN MakeError(self, ctx, "incorrect_format", KwValue(self.original_value))
             ELSE ctx

\* DecimalField._validate_place (its return value is dropped by the caller)
ValidatePlace(self, ctx, value) ==
    LET places_limit == self.decl.places_limit
    IN  IF places_limit = NoneV \/ places_limit.n = 0 THEN ctx
        ELSE IF value.t # "Decimal" THEN Raise(ctx, "AttributeError", "value.as_tuple")
        ELSE IF Abs(value.e) > places_limit.n
             THEN MakeError(self, ctx, "incorrect_format",
                            KwValue(StrV(PlainString(value.n, value.e))))
             ELSE ctx

\* DecimalField.validate: the quantized value is a local of validate.
DecimalValidate(self, ctx, value) ==
    LET c1        == ValidatePlace(self, ctx, value)
        places    == self.decl.places
        min_value == self.decl.min_value
        max_value == self.decl.max_value
        quantized == IF places # NoneV
                     THEN Quantize(value, places, self.decl.rounding) ELSE value
        below     == IF quantized # NoneV /\ min_value # NoneV
                     THEN PyLess(quantized, min_value) ELSE "False"
        above     == IF quantized # NoneV /\ below = "False" /\ max_value # NoneV
                     THEN PyLess(max_value, quantized) ELSE "False"
    IN  IF c1.exc # "" THEN c1
        ELSE IF places # NoneV /\ value.t # "Decimal"
             THEN Raise(c1, "AttributeError", "value.is_finite")
        ELSE IF "TypeError" \in {below, above}
             THEN Raise(c1, "TypeError", "value < min_value or value > max_value")
        ELSE IF "True" \in {below, above}
             THEN MakeError(self, c1, "incorrect_format", KwValue(self.original_value))
             ELSE c1

\* self.validate(value), by the declaration's class (Field.validate does nothing).
Validate(self, ctx, value) ==
    CASE self.decl.kind \in {"IntField", "FloatField"} -> NumberValidate(self, ctx, value)
      [] self.decl.kind = "StrField"     -> StrValidate(self, ctx, value)
      [] self.decl.kind = "DecimalField" -> DecimalValidate(self, ctx, value)
      [] self.decl.kind \in {"DateTime", "BooleanField", "EnumField"} -> ctx

\* Field._validate: returns the value it was given.
RunValidatorsAfter(self, c1, value) ==
    IF c1.exc # "" THEN c1 ELSE RunValidators(self, c1, value)

ValidateAll(self, ctx, value) ==
    Step(RunValidatorsAfter(self, Validate(self, ctx, value), value), value)

\* Lines 208-209 of _deserialize, after the step s3 that produced output.
DeserializeTail(self, s3) ==
    IF s3.ctx.exc # "" THEN Step(s3.ctx, NoneV) ELSE ValidateAll(self, s3.ctx, s3.v)

\* Lines 205-206 of _deserialize: the test reads the raw value.
DeserializeIfPresent(self, c2, value, output) ==
    IF c2.exc # "" THEN Step(c2, NoneV)
    ELSE IF value \notin EMPTY_VALUES THEN Deserialize(self, c2, output)
    ELSE Step(c2, output)

\* Line 204 of _deserialize: the required check reads the raw value.
RequiredAfter(self, s1, value) ==
    IF s1.ctx.exc # "" THEN s1.ctx ELSE ValidateRequired(self, s1.ctx, value)

\* Lines 204-209 of _deserialize, after the step s1 of the preprocessors.
DeserializeRest(self, s1, value) ==
    DeserializeTail(self, DeserializeIfPresent(self, RequiredAfter(self, s1, value),
                                               value, s1.v))

\* Field._deserialize
DeserializeAll(self, ctx, value) ==
    DeserializeRest(self, RunPreprocessors(self, ctx, pre_process_value(self, value)),
                    value)

\* ------------------------------------------------------------ the record type

\* The attributes the record type declares, and the name __set_name__ receives.
Attrs ==
    {"unit_price", "note"}

attr_name(a) ==
    IF a = "unit_price" THEN <<"u","n","i","t","_","p","r","i","c","e">>
    ELSE <<"n","o","t","e">>

\* How many calls (assignments, reads, direct deserialize calls) a run makes.
MaxCalls ==
    2

Ten ==
    IntV(10)

Zero ==
    IntV(0)

Cent ==
    DecimalV(1, -2)

NumberBounds ==
    { <<NoneV, NoneV>>, <<Zero, NoneV>>, <<NoneV, Ten>>, <<Zero, Ten>> }

\* Declarations of each class, as a record type may write them.
NumberDeclarations ==
    { [Declare("IntField") EXCEPT !.required = req, !.min_value = b[1], !.max_value = b[2]] :
        req \in BOOLEAN, b \in NumberBounds }
    \cup
    { [Declare("FloatField") EXCEPT !.required = FALSE, !.min_value = b[1],
                                    !.max_value = b[2]] : b \in NumberBounds }
    \cup
    { Declare("FloatField") }

StrDeclarations ==
    { [Declare("StrField") EXCEPT !.required = req] : req \in BOOLEAN }
    \cup
    { [Declare("StrField") EXCEPT !.required = FALSE, !.min_len = IntV(2),
                                  !.max_len = IntV(4)] }

DecimalDeclarations ==
    { Declare("DecimalField") }
    \cup
    { [Declare("DecimalField") EXCEPT !.required = FALSE, !.places = p[1],
                                      !.rounding = p[2], !.places_limit = p[3],
                                      !.min_value = p[4], !.max_value = p[5]] :
        p \in { <<NoneV, "None", NoneV, NoneV, NoneV>>,
                <<Cent, "ROUND_HALF_UP", NoneV, NoneV, NoneV>>,
                <<Cent, "None", NoneV, NoneV, NoneV>>,
                <<NoneV, "None", IntV(2), NoneV, NoneV>>,
                <<NoneV, "None", NoneV, DecimalV(0, 0), DecimalV(10, 0)>> } }

OtherDeclarations ==
    { [Declare(k) EXCEPT !.required = req,
                         !.enumeration = IF k = "EnumField"
                                         THEN << <<"A","c","t","i","v","e">>,
                                                 <<"I","n","a","c","t","i","v","e">> >>
                                         ELSE <<>>] :
        k \in {"DateTime", "BooleanField", "EnumField"}, req \in BOOLEAN }

OptionDeclarations ==
    LET int == [Declare("IntField") EXCEPT !.required = FALSE]
        str == [Declare("StrField") EXCEPT !.required = FALSE]
    IN  { [int EXCEPT !.convert_to_none_strings = << <<"N","/","A">> >>],
          [int EXCEPT !.convert_to_none_strings = << <<"n","/","a">> >>,
                      !.required = TRUE],
          [int EXCEPT !.default = Zero],
          [int EXCEPT !.error_messages = [k \in {"format"} |-> CUSTOM_message]],
          [int EXCEPT !.error_messages = [k \in {"incorrect_format"} |-> CUSTOM_message]],
          [int EXCEPT !.validators = <<"accept", "reject">>],
          [int EXCEPT !.pre_processors = <<"reject", "spaces_to_underscores">>],
          [str EXCEPT !.pre_processors = <<"spaces_to_underscores", "reject">>],
          [str EXCEPT !.pre_processors = <<"spaces_to_underscores">>,
                      !.verbose_name = StrV(<<"P","r","i","c","e">>)],
          [Declare("DateTime") EXCEPT !.format = StrV(<<"i","s","o","8","6","0","1">>)] }

Declarations ==
    NumberDeclarations \cup StrDeclarations \cup DecimalDeclarations
        \cup OtherDeclarations \cup OptionDeclarations

NoteDeclarations ==
    { [Declare("StrField") EXCEPT !.required = FALSE] }

\* The raw values a caller assigns.
RawValues ==
    { NoneV, StrV(<<>>), EmptyList, EmptyTuple, EmptyDict,
      StrV(<<" ">>),
      StrV(<<"n","u","l","l">>),
      StrV(<<"N","U","L","L">>),
      StrV(<<"N","/","A">>),
      StrV(<<" ","5"," ">>),
      StrV(<<"-","1">>),
      StrV(<<"1","1">>),
      StrV(<<"1",".","0","0","5">>),
      StrV(<<"a","b","c">>),
      StrV(<<"Y","e","s">>),
      StrV(<<"a","c","t","i","v","e">>),
      StrV(<<"2","0","2","3","-","0","1","-","1","5","T","1","0",":","3","0",":","0","0","Z">>),
      IntV(5) }

\* The record type's own "fields" attribute, which __set__ reads through the
\* instance: not declared, or declared as None (an empty dict is falsy too and
\* is treated as None is).
\* A registry is [t, names]: the names it maps (each to its declaration).
Registry(t, names) ==
    [t |-> t, names |-> names]

ClassRegistries ==
    { Registry("absent", {}), Registry("None", {}) }

VARIABLES
    decl,            \* attribute -> its Field declaration (fixed at class creation)
    cls_fields,      \* the record type's own "fields" attribute
    owner,           \* attribute -> self.owner
    original_value,  \* attribute -> self.original_value
    is_error,        \* attribute -> self.is_error
    errors,          \* attribute -> self.errors, [kind, items]
    private,         \* record -> attribute -> the instance's _<name> attribute
    inst_fields,     \* record -> the instance's own "fields" attribute
    assigned,        \* the attributes stored so far (line 103), on any instance
    latest,          \* attribute -> its latest assignment: raw value, messages added,
                     \*              and the raw values of the assignments before it
    outcome,         \* what the last call did
    calls            \* the number of calls made

vars ==
    <<decl, cls_fields, owner, original_value, is_error, errors, private,
      inst_fields, assigned, latest, outcome, calls>>

NoOutcome ==
    [op |-> "none", rec |-> NoOwner, attr |-> "", raw |-> Unset, exc |-> "", at |-> "",
     val |-> Unset, calls |-> <<>>, made |-> <<>>, appended |-> <<>>, stored |-> FALSE]

\* Field.__init__ (lines 60-63) for every declaration; no instance has any
\* attribute yet.
Init ==
    /\ decl \in [Attrs -> Declarations]
    /\ decl["note"] \in NoteDeclarations
    /\ cls_fields \in ClassRegistries
    /\ owner = [a \in Attrs |-> NoOwner]
    /\ original_value = [a \in Attrs |-> NoneV]
    /\ is_error = [a \in Attrs |-> FALSE]
    /\ errors = [a \in Attrs |-> [kind |-> "list", items |-> <<>>]]
    /\ private = [r \in Records |-> [a \in Attrs |-> Unset]]
    /\ inst_fields = [r \in Records |-> Registry("absent", {})]
    /\ assigned = {}
    /\ latest = [a \in Attrs |->
                    [set |-> FALSE, raw |-> Unset, appended |-> <<>>, earlier |-> {}]]
    /\ outcome = NoOutcome
    /\ calls = 0

Self(a, own, original) ==
    [attr |-> a, attr_name |-> attr_name(a), decl |-> decl[a], owner |-> own,
     original_value |-> original]

\* getattr(owner, FIELDS): the instance's attribute, else the class's.
GetFields(r) ==
    IF inst_fields[r].t # "absent" THEN inst_fields[r] ELSE cls_fields

\* `if fields` of line 105: a non-empty dict.
Truthy(reg) ==
    reg.t = "dict" /\ reg.names # {}

\* Line 99: self.errors = defaultdict(list)
FreshErrors ==
    [kind |-> "defaultdict", items |-> <<>>]

\* self.original_value is left as it was.
KeepOriginalValue(old, value) ==
    old

\* Line 101: self.original_value = value
NewOriginalValue(old, value) ==
    value

\* Field.__set__(owner, value): the pipeline, then the store on the instance,
\* then the registration; an exception leaves the later steps undone.
Set(r, a, value) ==
    /\ calls < MaxCalls
    /\ \E res \in {DeserializeAll(Self(a, r, NewOriginalValue(original_value[a], value)),
                                  Context(FreshErrors, is_error[a]), value)} :
      LET done == res.ctx.exc = ""
          reg  == GetFields(r)
          noFields == done /\ reg.t = "absent"
      IN  /\ calls' = calls + 1
          /\ owner' = [owner EXCEPT ![a] = r]
          /\ original_value' =
                [original_value EXCEPT ![a] = NewOriginalValue(original_value[a], value)]
          /\ errors' = [errors EXCEPT ![a] = res.ctx.errors]
          /\ is_error' = [is_error EXCEPT ![a] = res.ctx.is_error]
          /\ private' = IF done THEN [private EXCEPT ![r][a] = res.v] ELSE private
          /\ inst_fields' =
                IF ~done \/ noFields THEN inst_fields
                ELSE IF ~Truthy(reg)
                     THEN [inst_fields EXCEPT ![r] = Registry("dict", {a})]
                ELSE IF inst_fields[r].t # "absent"
                     THEN [inst_fields EXCEPT ![r].names = @ \cup {a}]
                     ELSE inst_fields
          /\ cls_fields' =
                IF done /\ Truthy(reg) /\ inst_fields[r].t = "absent"
                THEN [cls_fields EXCEPT !.names = @ \cup {a}]
                ELSE cls_fields
          /\ assigned' = IF done THEN assigned \cup {a} ELSE assigned
          /\ latest' = [latest EXCEPT ![a] =
                            [set |-> TRUE, raw |-> value, appended |-> res.ctx.appended,
                             earlier |-> IF latest[a].set
                                         THEN latest[a].earlier \cup {latest[a].raw}
                                         ELSE {}]]
          /\ outcome' = [op |-> "set", rec |-> r, attr |-> a, raw |-> value,
                         exc |-> IF noFields THEN "AttributeError" ELSE res.ctx.exc,
                         at |-> IF noFields THEN "getattr(owner, FIELDS)" ELSE res.ctx.at,
                         val |-> IF done THEN res.v ELSE Unset,
                         calls |-> res.ctx.calls, made |-> res.ctx.made,
                         appended |-> res.ctx.appended, stored |-> done]
          /\ UNCHANGED decl

\* Field.__get__(obj, obj_type)
Get(r, a) ==
    LET value == private[r][a]
    IN  /\ calls < MaxCalls
        /\ calls' = calls + 1
        /\ outcome' = [NoOutcome EXCEPT
                         !.op = "get", !.rec = r, !.attr = a,
                         !.exc = IF value = Unset THEN "AttributeError" ELSE "",
                         !.at = IF value = Unset THEN "getattr(obj, private_name)" ELSE "",
                         !.val = IF value = Unset THEN Unset
                                 ELSE IF value = NoneV THEN decl[a].default ELSE value]
        /\ UNCHANGED <<decl, cls_fields, owner, original_value, is_error, errors,
                       private, inst_fields, assigned, latest>>

\* A direct call of the declaration's public deserialize(value): it works on the
\* runtime slots as the last assignment left them.
CallDeserialize(a, value) ==
    /\ calls < MaxCalls
    /\ \E res \in {Deserialize(Self(a, owner[a], original_value[a]),
                               Context(errors[a], is_error[a]), value)} :
        /\ calls' = calls + 1
        /\ errors' = [errors EXCEPT ![a] = res.ctx.errors]
        /\ is_error' = [is_error EXCEPT ![a] = res.ctx.is_error]
        /\ outcome' = [NoOutcome EXCEPT
                         !.op = "deserialize", !.attr = a, !.raw = value,
                         !.exc = res.ctx.exc, !.at = res.ctx.at,
                         !.val = IF res.ctx.exc = "" THEN res.v ELSE Unset,
                         !.calls = res.ctx.calls, !.made = res.ctx.made,
                         !.appended = res.ctx.appended]
        /\ UNCHANGED <<decl, cls_fields, owner, original_value, private, inst_fields,
                       assigned, latest>>

Next ==
    \/ \E r \in Records, a \in Attrs, value \in RawValues : Set(r, a, value)
    \/ \E r \in Records, a \in Attrs : Get(r, a)
    \/ \E a \in Attrs, value \in RawValues : CallDeserialize(a, value)

Spec ==
    Init /\ [][Next]_vars

\* The rows of one column read one after the other: a few declarations and raw
\* values, so that runs of three calls can be explored.
RowDeclarations ==
    { [Declare("IntField") EXCEPT !.required = TRUE],
      [Declare("IntField") EXCEPT !.required = TRUE, !.min_value = Zero,
                                  !.max_value = Ten],
      [Declare("IntField") EXCEPT !.required = FALSE,
                                  !.validators = <<"accept", "reject">>],
      [Declare("StrField") EXCEPT !.required = FALSE,
                                  !.pre_processors = <<"spaces_to_underscores", "reject">>],
      [Declare("DecimalField") EXCEPT !.required = FALSE, !.places = Cent,
                                      !.rounding = "ROUND_HALF_UP"],
      [Declare("DateTime") EXCEPT !.required = TRUE] }

RowValues ==
    { NoneV, StrV(<<>>), StrV(<<" ">>), StrV(<<"a","b","c">>), StrV(<<" ","5"," ">>),
      StrV(<<"1","1">>),
      StrV(<<"2","0","2","3","-","0","1","-","1","5","T","1","0",":","3","0",":","0","0","Z">>) }

InitRows ==
    /\ Init
    /\ decl["unit_price"] \in RowDeclarations
    /\ cls_fields.t = "None"

NextRows ==
    \/ \E r \in Records, a \in Attrs, value \in RowValues : Set(r, a, value)
    \/ \E r \in Records, a \in Attrs : Get(r, a)
    \/ \E a \in Attrs, value \in RowValues : CallDeserialize(a, value)

SpecRows ==
    InitRows /\ [][NextRows]_vars

\* ------------------------------------------------------------ properties

\* The last call was an assignment to an instance of a record type that
\* declares a "fields" attribute.
Assignment ==
    outcome.op = "set" /\ cls_fields.t # "absent"

\* The error list of the field the last call worked on.
Messages ==
    errors[outcome.attr].items

\* C1: for every field kind and every empty-value sentinel (None, "", [], (),
\* {}), assigning the sentinel to a non-required field completes with an empty
\* error list and a stored value of None, and assigning it to a required field
\* completes with exactly one error, the "required" error.
C1_EmptySentinelAssigned ==
    (Assignment /\ outcome.raw \in EMPTY_VALUES) =>
        /\ outcome.exc = ""
        /\ IF decl[outcome.attr].required
           THEN /\ Len(Messages) = 1
                /\ Messages[1].template = ErrorMessages(decl[outcome.attr])["required"]
           ELSE /\ Messages = <<>>
                /\ private[outcome.rec][outcome.attr] = NoneV

\* A string that pre-processing is to treat as absent: only whitespace, or,
\* once trimmed, equal to one of the declaration's convert-to-none tokens.
TreatedAsAbsent(d, raw) ==
    /\ raw.t = "str"
    /\ raw.s # <<>>
    /\ \/ Strip(raw.s) = <<>>
       \/ \E i \in 1..Len(ConvertToNoneStrings(d)) : ConvertToNoneStrings(d)[i] = Strip(raw.s)

\* What the last assignment would have done had it been given None.
NoneAssigned ==
    DeserializeAll(Self(outcome.attr, outcome.rec, NoneV),
                   Context(FreshErrors, is_error[outcome.attr]), NoneV)

\* C2: for every field kind, assigning a string that pre-processing treats as
\* absent (only whitespace, or after trimming equal to "null" or to a configured
\* convert-to-none token) has the same outcome as assigning None: the same
\* stored value, error list and error flag, and no exception.
C2_AbsentStringAsNone ==
    (Assignment /\ TreatedAsAbsent(decl[outcome.attr], outcome.raw)) =>
        \E none \in {NoneAssigned} :
            /\ outcome.exc = ""
            /\ none.ctx.exc = ""
            /\ outcome.val = none.v
            /\ Messages = none.ctx.errors.items
            /\ is_error[outcome.attr] = none.ctx.is_error

\* C3: after any sequence of assignments to the same field declaration, on the
\* same or on different record instances, the error list holds exactly the
\* messages the latest assignment recorded, the error flag is true iff the
\* latest assignment recorded at least one error, and the original value is the
\* latest raw input; nothing of an earlier assignment remains.
C3_LatestAssignmentOnly ==
    \A a \in Attrs :
        latest[a].set =>
            /\ errors[a].items = latest[a].appended
            /\ is_error[a] = (latest[a].appended # <<>>)
            /\ original_value[a] = latest[a].raw

\* A required Integer field was assigned None ("required" error) or "abc"
\* ("format" error) for one row, and then " 5 " for row 2, which stored 5.
C3_Reassigned ==
    /\ decl["unit_price"].kind = "IntField"
    /\ decl["unit_price"].required
    /\ latest["unit_price"].earlier \cap {NoneV, StrV(<<"a","b","c">>)} # {}
    /\ latest["unit_price"].raw = StrV(<<" ","5"," ">>)
    /\ outcome.op = "set"
    /\ outcome.attr = "unit_price"
    /\ owner["unit_price"] = "r2"
    /\ private["r2"]["unit_price"] = IntV(5)

\* The declaration, and the pre-processed raw value, of the last call.
LastDecl ==
    decl[outcome.attr]

LastInput ==
    pre_process_value(Self(outcome.attr, outcome.rec, outcome.raw), outcome.raw)

\* The last call was an assignment of a string that reached deserialize as a
\* string, untouched by preprocessors and caller-supplied validators.
StringAssigned ==
    /\ Assignment
    /\ LastDecl.pre_processors = <<>>
    /\ LastDecl.validators = <<>>
    /\ LastInput.t = "str"

\* The conversion of the declaration's class rejects the string v.
Unconvertible(d, v) ==
    CASE d.kind = "IntField"     -> PyInt(v).exc = "ValueError"
      [] d.kind = "FloatField"   -> PyFloat(v).exc = "ValueError"
      [] d.kind = "DecimalField" -> PyDecimal(PyStr(v)).exc # ""
      [] d.kind = "BooleanField" -> ~InTruthy(v) /\ ~InFalsy(v)
      [] d.kind = "EnumField"    ->
            \A i \in 1..Len(d.enumeration) : Lower(d.enumeration[i]) # Lower(v.s)
      [] d.kind \in {"StrField", "DateTime"} -> FALSE

\* C4: a conversion failure in an Integer, Float, Decimal, Boolean or
\* Enumeration field is non-fatal: the assignment completes without raising,
\* stores None on the record, appends exactly one message to the field's error
\* list and sets the error flag.
C4_ConversionFailureRecorded ==
    (StringAssigned /\ Unconvertible(LastDecl, LastInput)) =>
        /\ outcome.exc = ""
        /\ private[outcome.rec][outcome.attr] = NoneV
        /\ Len(Messages) = 1
        /\ is_error[outcome.attr]

\* The parser configured for the Datetime declaration d rejects v.
ParserRejects(d, v) ==
    /\ d.kind = "DateTime"
    /\ DateTimeParse(IF d.format.t = "str" /\ d.format.s # <<>>
                     THEN d.format.s ELSE DEFAULT_FORMAT, v).exc # ""

\* C5: assigning a value the configured parser rejects to a Datetime field
\* aborts the assignment with a raised "invalid" validation error: the
\* exception propagates, no value is stored for the record, and no message is
\* added to the field's error list.
C5_InvalidDatetimeRaised ==
    (StringAssigned /\ ParserRejects(LastDecl, LastInput)) =>
        /\ outcome.exc = "ValidationError"
        /\ ~outcome.stored
        /\ Messages = <<>>

\* The number an Integer or Float declaration converts the string v to.
Converted(d, v) ==
    IF d.kind = "IntField" THEN PyInt(v) ELSE PyFloat(v)

\* n lies outside the bounds the declaration configures.
OutOfRange(d, n) ==
    \/ d.min_value # NoneV /\ NumLess(n, d.min_value)
    \/ d.max_value # NoneV /\ NumLess(d.max_value, n)

\* C6: for an Integer or Float field and every combination of configured and
\* unconfigured minimum and maximum, the range check produces a "format" error
\* exactly when the converted value is below a configured minimum or above a
\* configured maximum, and for a value within the bounds it does not raise.
\* (Stated on the messages _make_error formats, so that it does not depend on
\* whether the message can then be appended.)
C6_RangeCheck ==
    (/\ StringAssigned
     /\ LastDecl.kind \in {"IntField", "FloatField"}
     /\ Converted(LastDecl, LastInput).exc = "") =>
        IF OutOfRange(LastDecl, Converted(LastDecl, LastInput).v)
        THEN outcome.made # <<>>
        ELSE outcome.exc = "" /\ outcome.made = <<>>

\* C7: for a Decimal field with a quantization precision configured, the value
\* stored by assigning a finite decimal equals that decimal rounded to the
\* configured precision with the configured rounding mode.
C7_QuantizedStored ==
    (/\ StringAssigned
     /\ LastDecl.kind = "DecimalField"
     /\ LastDecl.places # NoneV
     /\ PyDecimal(PyStr(LastInput)).exc = "") =>
        /\ outcome.exc = ""
        /\ \E q \in {Quantize(PyDecimal(PyStr(LastInput)).v, LastDecl.places,
                              LastDecl.rounding)} :
              /\ ~NumLess(private[outcome.rec][outcome.attr], q)
              /\ ~NumLess(q, private[outcome.rec][outcome.attr])

\* C8: the message produced for a conversion, range, length, membership,
\* preprocessor or validator failure is the template resolved for the "format"
\* key (the instance's override if given, else the default of the most-derived
\* class), formatted with the value, the field's verbose name and the owning
\* record's row number.
C8_FormatTemplate ==
    outcome.op = "set" =>
        \A i \in 1..Len(outcome.made) :
            outcome.made[i].key = "incorrect_format" =>
                /\ outcome.made[i].msg.template = ErrorMessages(LastDecl)["format"]
                /\ outcome.made[i].msg.value # Unset
                /\ outcome.made[i].msg.field =
                        make_verbose_name(LastDecl, attr_name(outcome.attr))
                /\ outcome.made[i].msg.row_number = row_number(outcome.rec)

\* C9: after any sequence of assignments on instances of a record type, the
\* type's field registry, read through any instance, maps exactly the names of
\* the fields that have been assigned at least once on any instance.
C9_TypeRegistry ==
    (cls_fields.t # "absent" /\ assigned # {}) =>
        \A r \in Records :
            /\ GetFields(r).t = "dict"
            /\ GetFields(r).names = assigned

\* C10: if a preprocessor signals a validation failure during an assignment,
\* exactly one error is recorded, with the value as it was before the
\* preprocessors ran, no later preprocessor is applied, the type-specific
\* deserialize is not invoked, and the value stored on the record is None.
C10_PreprocessorFailure ==
    \A i \in 1..Len(outcome.calls) :
        (Assignment /\ outcome.calls[i] = <<"preprocessor", "reject">>) =>
            /\ outcome.exc = ""
            /\ Len(Messages) = 1
            /\ Messages[1].value = LastInput
            /\ \A j \in (i + 1)..Len(outcome.calls) :
                    outcome.calls[j][1] \notin {"preprocessor", "deserialize"}
            /\ private[outcome.rec][outcome.attr] = NoneV

\* The raw value is a string that the Integer or Float declaration d converts
\* to a number outside its configured bounds, with no preprocessor or
\* caller-supplied validator involved.
RangeCheckFails(d, raw, input) ==
    /\ d.kind \in {"IntField", "FloatField"}
    /\ d.pre_processors = <<>>
    /\ d.validators = <<>>
    /\ raw.t = "str"
    /\ input.t = "str"
    /\ Converted(d, input).exc = ""
    /\ OutOfRange(d, Converted(d, input).v)

\* C11: when the numeric range check of an Integer or Float field fails during
\* an assignment, the value that assignment stores on the record is None, and
\* a later read of the attribute, with no default configured, returns None.
C11_OutOfRangeStoredNone ==
    /\ (Assignment /\ RangeCheckFails(LastDecl, outcome.raw, LastInput)) =>
            private[outcome.rec][outcome.attr] = NoneV
    /\ (/\ outcome.op = "get"
        /\ cls_fields.t # "absent"
        /\ latest[outcome.attr].set
        /\ owner[outcome.attr] = outcome.rec
        /\ LastDecl.default = NoneV
        /\ RangeCheckFails(LastDecl, latest[outcome.attr].raw,
                           pre_process_value(Self(outcome.attr, outcome.rec,
                                                  latest[outcome.attr].raw),
                                             latest[outcome.attr].raw))) =>
            outcome.exc = "" /\ outcome.val = NoneV

====
